---- MODULE Spec2Model ----
(***************************************************************************)
(* Conversational memory engine of aspirin2d/maid-origin.                  *)
(*                                                                         *)
(* Part I  - the debounced extraction scheduler (src/queue).               *)
(* Part II - the extraction pipeline (extractMemory).                      *)
(*                                                                         *)
(* The repository holds three versions of the scheduler; exactly one of    *)
(* them is linked into a running server.  The variable impl selects it:    *)
(*   "simple" : addExtractionJob            (src/queue/index.ts)           *)
(*   "native" : debounceMemoryExtraction    (src/queue/memory-queue.ts)    *)
(*   "manual" : debounceMemoryExtraction    (src/unnamed/part_008)         *)
(*                                                                         *)
(* The queue transport is BullMQ.  Its documented behaviour is used:       *)
(*   - Queue.add with a custom jobId that already exists (in any state,    *)
(*     finished jobs included while they are retained) adds nothing;       *)
(*   - deduplication {ttl, extend, replace} with a delay (debounce mode):  *)
(*     if the key is live and its job is still delayed, that job is        *)
(*     removed and replaced by the new one and the TTL restarts; if the    *)
(*     key is live and its job is no longer delayed the new job is         *)
(*     dropped; if there is no live key the job is added and the key set;  *)
(*   - a key with a TTL disappears when the TTL runs out, not when the     *)
(*     job finishes;                                                       *)
(*   - Job.timestamp is the creation time of that job object;              *)
(*   - Job.remove fails on a job that a worker holds (active).             *)
(* Time is counted in ticks; every call to the queue is one atomic step    *)
(* (one Redis script) and the clock may advance between two steps.         *)
(***************************************************************************)
EXTENDS Integers, Sequences, FiniteSets, TLC

\* ---------------------------------------------------------------- bounds
NumUsers == 1
NumCallers == 1
MaxTime == 4
MaxAuto == 4
MaxHttp == 1
MaxTrigger == 1
MaxRuns == 2
MaxMsgs == 2
MaxFacts == 1
MaxDecisions == 2
MaxUnifiedId == 3
MaxTurnMsgs == 2
MaxRequests == 2
NumStories == 2
MaxRows == 2
MaxTopK == 2
MaxQueries == 2

\* ------------------------------------------------------ program constants
\* debounceDelay and maxWait, in ticks (debounceDelay < maxWait as in the
\* two profiles 300/500 ms and 30/300 s).
DebounceDelay == 2
MaxWait == 3
\* addExtractionJob: ttl = delay + 200 ms, one tick more than the delay.
TtlSlack == 1
\* defaultJobOptions.attempts and backoff.delay (exponential), in ticks.
Attempts == 3
BackoffDelay == 1
\* Worker concurrency.
Concurrency == 5

Users == 1..NumUsers
Callers == 1..NumCallers
Builds == {"simple", "native", "manual"}
NonTerminal == {"delayed", "waiting", "active"}

VARIABLES
  impl,      \* which scheduler version is linked in
  now,       \* Date.now(), in ticks
  jobs,      \* the jobs the queue holds (finished ones are retained)
  dedup,     \* deduplication keys: user -> [job, exp] or NoKey
  nextId,    \* BullMQ's job id counter (jobs added without a jobId)
  calls,     \* debounceMemoryExtraction calls in flight, one per caller
  httpRuns,  \* extractMemory runs started by POST /memory-extraction
  ret,       \* observer: the schedule call that returned last
  burst,     \* observer: the current sequence of schedule(u) calls, per user
  late,      \* observer: a timer, a worker or a caller has been slow
  watch      \* "burst" when the observers burst and late are switched on

schedVars == <<impl, now, jobs, dedup, nextId, calls, httpRuns, ret, burst, late, watch>>

VARIABLES
  pipeline,  \* which version of the extraction module is linked in
  story,     \* the story table: story[s] is row s
  requests,  \* how many requests the update and create routes have served
  message,   \* the message table: message[i] is row i (ids are serial)
  memory,    \* the memory table: memory[i] is row i (ids are serial)
  run        \* the extractMemory runs, each with what it has awaited so far

VARIABLES
  lookup,    \* the similarity search under way: its arguments, what has
             \* settled, what it returned
  answered,  \* observer: what update-memory was asked last and its status
  turn       \* the generate-story request in flight, and how the last one ended

\* What no step of extractMemory writes.
restVars == <<pipeline, story, requests, lookup, answered, turn>>
extVars == <<restVars, message, memory, run>>
vars == <<schedVars, extVars>>

\* ------------------------------------------------------------- job ids
NoJob == <<"none", 0, 0>>
MainId(u) == <<"extract", u, 0>>              \* `extract-${userId}`
ImmediateId(u, t) == <<"immediate", u, t>>    \* `${jobId}-immediate-${Date.now()}`
ManualId(u, t) == <<"manual", u, t>>          \* `extract-${userId}-manual-${Date.now()}`
AutoId(u, n) == <<"auto", u, n>>              \* id drawn from the counter

NoKey == [job |-> NoJob, exp |-> 0]
Idle == [pc |-> "idle", user |-> 0, job |-> NoJob, ts |-> 0,
         t0 |-> 0, first |-> FALSE, clean |-> FALSE, act |-> FALSE, pend |-> FALSE,
         msgs |-> 0]
NoBurst == [first |-> -1, last |-> -1, done |-> FALSE, fired |-> FALSE,
            started |-> 0, clean |-> FALSE]
NoRet == [user |-> 0, status |-> "none", msgs |-> 0]

\* ------------------------------------------------- the queue (BullMQ)
JobsWithId(id) == {j \in jobs : j.id = id}
JobsOf(u) == {j \in jobs : j.user = u}
StateOfId(id) == IF JobsWithId(id) = {} THEN "unknown"
                 ELSE (CHOOSE j \in JobsWithId(id) : TRUE).state
PendingOf(u) == {j \in JobsOf(u) : j.state \in NonTerminal}

NewJob(id, u, delay) ==
  [id |-> id, user |-> u,
   state |-> IF delay > 0 THEN "delayed" ELSE "waiting",
   timestamp |-> now, fireAt |-> now + delay, attemptsMade |-> 0]

KeyLive(u) == dedup[u] # NoKey /\ dedup[u].exp > now

\* Queue.add(name, data, {jobId, delay}) without deduplication.
QueueAdd(id, u, delay) ==
  IF JobsWithId(id) # {} THEN jobs ELSE jobs \cup {NewJob(id, u, delay)}

\* Queue.add(name, data, {jobId?, delay, deduplication: {id, ttl, extend, replace}}):
\* the jobs after the call.
DedupAddJobs(id, u, delay) ==
  IF JobsWithId(id) # {} THEN jobs
  ELSE IF KeyLive(u)
       THEN LET cur == {j \in jobs : j.id = dedup[u].job /\ j.state = "delayed"}
            IN  IF cur # {} THEN (jobs \ cur) \cup {NewJob(id, u, delay)} ELSE jobs
       ELSE jobs \cup {NewJob(id, u, delay)}

\* ... and the deduplication keys after the call.
DedupAddKeys(id, u, ttl) ==
  IF JobsWithId(id) # {} THEN dedup
  ELSE IF KeyLive(u)
       THEN IF \E j \in jobs : j.id = dedup[u].job /\ j.state = "delayed"
            THEN [dedup EXCEPT ![u] = [job |-> id, exp |-> now + ttl]]
            ELSE dedup
       ELSE [dedup EXCEPT ![u] = [job |-> id, exp |-> now + ttl]]

SetState(j, st) == (jobs \ {j}) \cup {[j EXCEPT !.state = st]}

\* ------------------------------------------------------------ observers
\* A call made DebounceDelay or more after the previous one opens a new
\* sequence; a closer one continues the current sequence.
OpensBurst(u) == burst[u].first < 0 \/ now - burst[u].last >= DebounceDelay
BurstCall(u) ==
  IF OpensBurst(u)
  THEN [first |-> now, last |-> now, done |-> FALSE, fired |-> FALSE,
        started |-> 0, clean |-> PendingOf(u) = {}]
  ELSE [burst[u] EXCEPT !.last = now]
AllActive(u) == PendingOf(u) # {} /\ \A j \in PendingOf(u) : j.state = "active"
\* u has exactly one job in flight, delayed (its timer not overdue) or
\* waiting, no older than maxWait.
OnePending(u) ==
  /\ Cardinality(PendingOf(u)) = 1
  /\ \A j \in PendingOf(u) :
        /\ j.state \in {"delayed", "waiting"}
        /\ j.state = "delayed" => j.fireAt >= now
        /\ now - j.timestamp <= MaxWait
Watching(w) == watch = w

\* The call of caller c starts: what it finds is noted.
Invoke(c, u, pc, id, ts) ==
  /\ calls' = [calls EXCEPT ![c] =
        [pc |-> pc, user |-> u, job |-> id, ts |-> ts,
         t0 |-> now,
         first |-> Watching("burst") /\ OpensBurst(u),
         clean |-> PendingOf(u) = {},
         act |-> AllActive(u),
         pend |-> OnePending(u),
         msgs |-> IF Watching("active") THEN Len(message) ELSE 0]]
  /\ burst' = IF Watching("burst") THEN [burst EXCEPT ![u] = BurstCall(u)] ELSE burst
  /\ UNCHANGED ret

Goto(c, pc) ==
  /\ calls' = [calls EXCEPT ![c].pc = pc]
  /\ UNCHANGED <<ret, burst>>

\* The call of caller c returns (or throws) with the given status.
Return(c, status) ==
  /\ calls' = [calls EXCEPT ![c] = Idle]
  /\ ret' = [user |-> calls[c].user, status |-> status, msgs |-> calls[c].msgs]
  /\ burst' = [burst EXCEPT ![calls[c].user].done =
        @ \/ (calls[c].first /\ calls[c].t0 = burst[calls[c].user].first)]

\* ------------------------------------------- the extraction pipeline's data
Pipelines == {"perRow", "inArray"}
Runs == 1..MaxRuns
Texts == {"a", "b"}
\* The names of the handler registry and one name that is not in it.
Registered == {"simple"}
HandlerNames == Registered \cup {"retired"}
\* EMPTY_STATS
EMPTY_STATS == [factsExtracted |-> 0, memoriesAdded |-> 0,
                memoriesUpdated |-> 0, messagesExtracted |-> 0]
\* A run: what it holds in its locals (messageIds .. txMarked, stats) and
\* what it has done to the store (rendered, marked, landed, before, failedAt).
IdleRun == [pc |-> "idle", messageIds |-> <<>>, facts |-> <<>>,
            existingMemories |-> <<>>, decisions |-> <<>>, k |-> 0,
            txWrites |-> <<>>, txMarked |-> {}, marked |-> {}, landed |-> 0,
            rendered |-> {}, stats |-> EMPTY_STATS, failedAt |-> "",
            handlers |-> {}, applicable |-> 0, asked |-> <<>>, decided |-> 0,
            accepted |-> <<>>,
            before |-> [message |-> <<>>, memory |-> <<>>]]
Stories == 1..NumStories
\* No generate-story request yet. inserted: the messages the request has
\* inserted; status: the answer of the last request (0: none yet, or the
\* request is in flight); scheduled: it has called addExtractionJob; upTo:
\* the last message id that an addExtractionJob call has followed.
NoTurn == [pc |-> "idle", story |-> 0, inserted |-> 0, status |-> 0,
           scheduled |-> FALSE, upTo |-> 0]
\* The stories as create-story left them, no request served.
OneStory ==
  /\ story = [s \in Stories |-> [handler |-> "simple", userId |-> 1]]
  /\ requests = 0
  /\ lookup = [pc |-> "idle"]
  /\ answered = [id |-> 0, fields |-> {}, status |-> 0]
  /\ turn = NoTurn
\* No message, no memory, no run.
NoExtraction ==
  /\ pipeline = "perRow"
  /\ OneStory
  /\ message = <<>>
  /\ memory = <<>>
  /\ run = [r \in Runs |-> IdleRun]

\* ------------------------------------------------------------------ Init
Init ==
  /\ impl \in Builds
  /\ now = 0
  /\ jobs = {}
  /\ dedup = [u \in Users |-> NoKey]
  /\ nextId = 1
  /\ calls = [c \in Callers |-> Idle]
  /\ httpRuns = [u \in Users |-> 0]
  /\ ret = NoRet
  /\ burst = [u \in Users |-> NoBurst]
  /\ late = FALSE
  /\ watch = "queue"
  /\ NoExtraction

\* ------------------------------------------------------------- the clock
Overdue ==
  \/ \E j \in jobs : j.state = "delayed" /\ j.fireAt <= now
  \/ \E j \in jobs : j.state = "waiting"
  \/ \E c \in Callers : calls[c].pc # "idle"

\* Time passes; deduplication keys whose TTL has run out disappear.
Tick ==
  /\ now < MaxTime
  /\ now' = now + 1
  /\ dedup' = [u \in Users |->
                 IF dedup[u] # NoKey /\ dedup[u].exp <= now + 1 THEN NoKey ELSE dedup[u]]
  /\ late' = (late \/ (Watching("burst") /\ Overdue))
  /\ UNCHANGED <<extVars, impl, jobs, nextId, calls, httpRuns, ret, burst, watch>>

\* ------------------------------------------- "simple": addExtractionJob
\* The generate-story request that awaits the call, if there is one, answers
\* 200 when the call resolves.
addExtractionJob(u) ==
  /\ impl = "simple"
  /\ nextId <= MaxAuto
  /\ jobs' = DedupAddJobs(AutoId(u, nextId), u, DebounceDelay)
  /\ dedup' = DedupAddKeys(AutoId(u, nextId), u, DebounceDelay + TtlSlack)
  /\ nextId' = nextId + 1
  /\ ret' = [user |-> u, status |-> "void", msgs |-> 0]
  /\ burst' = IF Watching("burst")
              THEN [burst EXCEPT ![u] = [BurstCall(u) EXCEPT !.done = TRUE]] ELSE burst
  /\ turn' = IF turn.pc = "inserted"
             THEN [turn EXCEPT !.pc = "idle", !.status = 200, !.scheduled = TRUE,
                               !.upTo = Len(message)]
             ELSE turn
  /\ UNCHANGED <<pipeline, story, requests, lookup, answered, message, memory, run>>
  /\ UNCHANGED <<watch, impl, now, calls, httpRuns, late>>

\* ----------------------------- "manual": debounceMemoryExtraction, part_008
\* const existingJob = await memoryQueue.getJob(jobId)
Manual_getJob(c, u) ==
  /\ impl = "manual"
  /\ calls[c].pc = "idle"
  /\ LET ex == JobsWithId(MainId(u)) IN
       IF ex = {} THEN Invoke(c, u, "add", NoJob, 0)
       ELSE Invoke(c, u, "getState", MainId(u), (CHOOSE j \in ex : TRUE).timestamp)
  /\ UNCHANGED <<extVars, watch, impl, now, jobs, dedup, nextId, httpRuns, late>>

\* const state = await existingJob.getState(); the two early returns
Manual_getState(c) ==
  /\ impl = "manual"
  /\ calls[c].pc = "getState"
  /\ LET st == StateOfId(calls[c].job) IN
       IF st = "active" THEN Return(c, "processing")
       ELSE IF st \in {"delayed", "waiting"}
            THEN IF now - calls[c].ts > MaxWait
                 THEN Return(c, "max_wait_reached")
                 ELSE Goto(c, "remove")
            ELSE Goto(c, "add")
  /\ UNCHANGED <<extVars, watch, impl, now, jobs, dedup, nextId, httpRuns, late>>

\* await existingJob.remove(): throws when a worker holds the job
Manual_remove(c) ==
  /\ impl = "manual"
  /\ calls[c].pc = "remove"
  /\ IF StateOfId(calls[c].job) = "active"
     THEN Return(c, "error") /\ UNCHANGED jobs
     ELSE Goto(c, "add") /\ jobs' = jobs \ JobsWithId(calls[c].job)
  /\ UNCHANGED <<extVars, watch, impl, now, dedup, nextId, httpRuns, late>>

\* await memoryQueue.add("extract-memory", {userId}, {jobId, delay})
Manual_add(c) ==
  /\ impl = "manual"
  /\ calls[c].pc = "add"
  /\ jobs' = QueueAdd(MainId(calls[c].user), calls[c].user, DebounceDelay)
  /\ Return(c, "debounced")
  /\ UNCHANGED <<extVars, watch, impl, now, dedup, nextId, httpRuns, late>>

\* ----------------------- "native": debounceMemoryExtraction, memory-queue.ts
\* const existingJobId = await memoryQueue.getDeduplicationJobId(deduplicationId)
Native_getDeduplicationJobId(c, u) ==
  /\ impl = "native"
  /\ calls[c].pc = "idle"
  /\ IF KeyLive(u) THEN Invoke(c, u, "getJob", dedup[u].job, 0)
                   ELSE Invoke(c, u, "add", NoJob, 0)
  /\ UNCHANGED <<extVars, watch, impl, now, jobs, dedup, nextId, httpRuns, late>>

\* const existingJob = await memoryQueue.getJob(existingJobId)
Native_getJob(c) ==
  /\ impl = "native"
  /\ calls[c].pc = "getJob"
  /\ LET ex == JobsWithId(calls[c].job) IN
       IF ex = {} THEN Goto(c, "add")
       ELSE /\ calls' = [calls EXCEPT ![c].pc = "getState",
                                      ![c].ts = (CHOOSE j \in ex : TRUE).timestamp]
            /\ UNCHANGED <<ret, burst>>
  /\ UNCHANGED <<extVars, watch, impl, now, jobs, dedup, nextId, httpRuns, late>>

\* const state = await existingJob.getState(); the maxWait test
Native_getState(c) ==
  /\ impl = "native"
  /\ calls[c].pc = "getState"
  /\ IF StateOfId(calls[c].job) = "active" THEN Return(c, "processing")
     ELSE IF now - calls[c].ts > MaxWait THEN Goto(c, "removeKey")
     ELSE Goto(c, "add")
  /\ UNCHANGED <<extVars, watch, impl, now, jobs, dedup, nextId, httpRuns, late>>

\* await memoryQueue.removeDeduplicationKey(deduplicationId)
Native_removeDeduplicationKey(c) ==
  /\ impl = "native"
  /\ calls[c].pc = "removeKey"
  /\ dedup' = [dedup EXCEPT ![calls[c].user] = NoKey]
  /\ Goto(c, "addImmediate")
  /\ UNCHANGED <<extVars, watch, impl, now, jobs, nextId, httpRuns, late>>

\* await memoryQueue.add(..., {jobId: `${jobId}-immediate-${Date.now()}`, priority: 1})
Native_addImmediate(c) ==
  /\ impl = "native"
  /\ calls[c].pc = "addImmediate"
  /\ jobs' = QueueAdd(ImmediateId(calls[c].user, now), calls[c].user, 0)
  /\ Return(c, "max_wait_reached")
  /\ UNCHANGED <<extVars, watch, impl, now, dedup, nextId, httpRuns, late>>

\* await memoryQueue.add(..., {jobId, delay, deduplication: {id, ttl, extend, replace}})
Native_add(c) ==
  /\ impl = "native"
  /\ calls[c].pc = "add"
  /\ jobs' = DedupAddJobs(MainId(calls[c].user), calls[c].user, DebounceDelay)
  /\ dedup' = DedupAddKeys(MainId(calls[c].user), calls[c].user, DebounceDelay)
  /\ Return(c, "debounced")
  /\ UNCHANGED <<extVars, watch, impl, now, nextId, httpRuns, late>>

\* --------------------------------------------- triggerMemoryExtraction
triggerMemoryExtraction(u) ==
  /\ impl \in {"native", "manual"}
  /\ Cardinality({j \in jobs : j.id[1] = "manual"}) < MaxTrigger
  /\ jobs' = QueueAdd(ManualId(u, now), u, 0)
  /\ UNCHANGED <<extVars, watch, impl, now, dedup, nextId, calls, httpRuns, ret, burst, late>>

\* --------------------------------------------- timers and the worker pool
\* A delayed job whose time has come is moved to the wait list.
TimerFires(j) ==
  /\ j \in jobs /\ j.state = "delayed" /\ j.fireAt <= now
  /\ jobs' = SetState(j, "waiting")
  /\ burst' = [burst EXCEPT ![j.user].fired = @ \/ (Watching("burst") /\ burst[j.user].first >= 0)]
  /\ UNCHANGED <<extVars, watch, impl, now, dedup, nextId, calls, httpRuns, ret, late>>

\* A worker takes a waiting job and starts extractMemory(userId).
WorkerStart(j) ==
  /\ j \in jobs /\ j.state = "waiting"
  /\ Cardinality({k \in jobs : k.state = "active"}) < Concurrency
  /\ jobs' = SetState(j, "active")
  /\ burst' = [burst EXCEPT ![j.user] =
        IF Watching("burst") /\ @.first >= 0 /\ j.attemptsMade = 0 /\ @.started < 2
        THEN [@ EXCEPT !.started = @ + 1] ELSE @]
  /\ UNCHANGED <<extVars, watch, impl, now, dedup, nextId, calls, httpRuns, ret, late>>

\* The processor returns the stats: the job is completed and retained.
WorkerSucceed(j) ==
  /\ j \in jobs /\ j.state = "active"
  /\ jobs' = (jobs \ {j}) \cup
       {[j EXCEPT !.state = "completed", !.attemptsMade = j.attemptsMade + 1]}
  /\ UNCHANGED <<extVars, watch, impl, now, dedup, nextId, calls, httpRuns, ret, burst, late>>

AttemptsOf == IF impl = "simple" THEN 1 ELSE Attempts
Backoff(made) == IF made <= 1 THEN BackoffDelay ELSE 2 * BackoffDelay

\* The processor throws: retry with exponential backoff, or failed.
WorkerFail(j) ==
  /\ j \in jobs /\ j.state = "active"
  /\ LET made == j.attemptsMade + 1 IN
       jobs' = (jobs \ {j}) \cup
         {IF made < AttemptsOf
          THEN [j EXCEPT !.state = "delayed", !.attemptsMade = made,
                         !.fireAt = now + Backoff(made)]
          ELSE [j EXCEPT !.state = "failed", !.attemptsMade = made]}
  /\ UNCHANGED <<extVars, watch, impl, now, dedup, nextId, calls, httpRuns, ret, burst, late>>

\* --------------------------------------------- POST /memory-extraction
\* The route runs extractMemory(user.id) in the request, outside the queue.
HttpExtractStart(u) ==
  /\ httpRuns[u] < MaxHttp
  /\ httpRuns' = [httpRuns EXCEPT ![u] = @ + 1]
  /\ UNCHANGED <<extVars, watch, impl, now, jobs, dedup, nextId, calls, ret, burst, late>>

HttpExtractEnd(u) ==
  /\ httpRuns[u] > 0
  /\ httpRuns' = [httpRuns EXCEPT ![u] = @ - 1]
  /\ UNCHANGED <<extVars, watch, impl, now, jobs, dedup, nextId, calls, ret, burst, late>>

Next ==
  \/ Tick
  \/ \E u \in Users : addExtractionJob(u)
  \/ \E c \in Callers, u \in Users : Manual_getJob(c, u)
  \/ \E c \in Callers : Manual_getState(c)
  \/ \E c \in Callers : Manual_remove(c)
  \/ \E c \in Callers : Manual_add(c)
  \/ \E c \in Callers, u \in Users : Native_getDeduplicationJobId(c, u)
  \/ \E c \in Callers : Native_getJob(c)
  \/ \E c \in Callers : Native_getState(c)
  \/ \E c \in Callers : Native_removeDeduplicationKey(c)
  \/ \E c \in Callers : Native_addImmediate(c)
  \/ \E c \in Callers : Native_add(c)
  \/ \E u \in Users : triggerMemoryExtraction(u)
  \/ \E j \in jobs : TimerFires(j)
  \/ \E j \in jobs : WorkerStart(j)
  \/ \E j \in jobs : WorkerSucceed(j)
  \/ \E j \in jobs : WorkerFail(j)
  \/ \E u \in Users : HttpExtractStart(u)
  \/ \E u \in Users : HttpExtractEnd(u)

Spec == Init /\ [][Next]_vars

\* The scheduler alone (no manual trigger, no /memory-extraction request),
\* with the observers of call sequences switched on.
InitBurst ==
  /\ impl \in Builds
  /\ now = 0
  /\ jobs = {}
  /\ dedup = [u \in Users |-> NoKey]
  /\ nextId = 1
  /\ calls = [c \in Callers |-> Idle]
  /\ httpRuns = [u \in Users |-> 0]
  /\ ret = NoRet
  /\ burst = [u \in Users |-> NoBurst]
  /\ late = FALSE
  /\ watch = "burst"
  /\ NoExtraction

NextBurst ==
  \/ Tick
  \/ \E u \in Users : addExtractionJob(u)
  \/ \E c \in Callers, u \in Users : Manual_getJob(c, u)
  \/ \E c \in Callers : Manual_getState(c)
  \/ \E c \in Callers : Manual_remove(c)
  \/ \E c \in Callers : Manual_add(c)
  \/ \E c \in Callers, u \in Users : Native_getDeduplicationJobId(c, u)
  \/ \E c \in Callers : Native_getJob(c)
  \/ \E c \in Callers : Native_getState(c)
  \/ \E c \in Callers : Native_removeDeduplicationKey(c)
  \/ \E c \in Callers : Native_addImmediate(c)
  \/ \E c \in Callers : Native_add(c)
  \/ \E j \in jobs : TimerFires(j)
  \/ \E j \in jobs : WorkerStart(j)
  \/ \E j \in jobs : WorkerSucceed(j)
  \/ \E j \in jobs : WorkerFail(j)

SpecBurst == InitBurst /\ [][NextBurst]_vars

\* ===================================================================
\* Part II - the extraction pipeline (extractMemory)
\*
\* pipeline = "perRow"  : the version of src/unnamed/part_011
\* pipeline = "inArray" : the version of src/tests/unit/env.test.ts
\* Every await is one step; an awaited call (OpenAI, a database statement)
\* may reject, which ends the run.  Statements sent through tx take effect
\* when the transaction commits; statements sent through db take effect
\* at once.  A request of an update or create route is one step: its
\* select and its statement are not told apart.
\*
\* SpecExtract : runs of extractMemory side by side, messages being persisted
\* SpecStore   : one run among the requests of the routes on the same rows
\* SpecTwice   : the routes first, then runs one after the other
\* SpecShared  : one run on a store that holds rows of a second user
\* SpecTurn    : generate-story, update-story and the worker of story.ts's
\*               queue; SpecLive is SpecTurn with a server that does not stop
\* ===================================================================
SIMILAR_MEMORY_TOP_K == 3

RECURSIVE Ascending(_)
Ascending(S) ==
  IF S = {} THEN <<>>
  ELSE LET m == CHOOSE x \in S : \A y \in S : x <= y
       IN  <<m>> \o Ascending(S \ {m})
Range(q) == {q[i] : i \in 1..Len(q)}
SeqsUpTo(S, n) == UNION {[1..k -> S] : k \in 0..n}

\* An update that sets the flag of no row ...
SetNoneExtracted(ids) == message
\* ... and one that sets the flag of every row of the table.
SetEveryExtracted(ids) ==
  IF ids = {} THEN message
  ELSE [i \in 1..Len(message) |-> [message[i] EXCEPT !.extracted = TRUE]]
\* update(message).set({ extracted: true }) for the rows with these ids
SetExtracted(ids) ==
  [i \in 1..Len(message) |->
     IF i \in ids THEN [message[i] EXCEPT !.extracted = TRUE] ELSE message[i]]
\* memoriesAdded, memoriesUpdated: the statements of one kind
\* The statements counted whatever their kind.
CountAll(ws, kind) == Len(ws)
CountKind(ws, kind) == Cardinality({i \in 1..Len(ws) : ws[i].kind = kind})

\* The select of Stage 1 with the filter on extracted left out.
EveryId == 1..Len(message)

\* .where(and(eq(story.userId, userId), eq(message.extracted, false)));
\* extractMemory runs for user 1.
PendingIds ==
  {i \in 1..Len(message) :
     story[message[i].story].userId = 1 /\ ~message[i].extracted}

\* Embed(text): the vector the embedding model returns for a text.
EmbeddingOf(text) == [vectorOf |-> text]

\* storyHandler: story.handler of the rows the select returns
HandlersOf(ids) == {story[message[i].story].handler : i \in ids}

\* A rendering that passes over the messages of an unregistered handler.
RenderingsOfKnown(ids) ==
  {[throws |-> FALSE,
    ids |-> {i \in ids : story[message[i].story].handler \in Registered}]}

\* formatMessagesForFactExtraction(messages): the ids of the messages that
\* are in the conversation, or an exception.  getStoryHandlerByName throws
\* for a name that is not registered.  "inArray" leaves out what
\* toHandlerMessage cannot parse; "perRow" hands every content to
\* handler.messageToString, which renders it or throws on a content of
\* another shape, depending on the handler.
Renderings(ids) ==
  IF \E i \in ids : story[message[i].story].handler \notin Registered
  THEN {[throws |-> TRUE, ids |-> {}]}
  ELSE IF pipeline = "inArray"
  THEN {[throws |-> FALSE, ids |-> {i \in ids : message[i].valid}]}
  ELSE IF \A i \in ids : message[i].valid
  THEN {[throws |-> FALSE, ids |-> ids]}
  ELSE {[throws |-> FALSE, ids |-> ids], [throws |-> TRUE, ids |-> {}]}

\* What the two completions can answer. FactRetrievalSchema: { facts: [{
\* text: string, ... }] }, so a fact's text may be blank: " ". Blank fact
\* texts are drawn where they are studied.
FactTexts == IF Watching("blank") THEN Texts \cup {" "} ELSE Texts
FactLists == SeqsUpTo(FactTexts, MaxFacts)
\* String(n), n > 0.  A string is the decimal digits of lead (none if lead
\* is 0) followed by tail.
String(n) == [lead |-> n, tail |-> ""]
\* The ids a decision can carry: "1", "2", .., and "1x" and "x".
IdStrings ==
  {String(n) : n \in 1..MaxUnifiedId} \cup {[lead |-> n, tail |-> "x"] : n \in 0..1}
NaN == -1
\* parseInt(id, 10): the leading digits, whatever follows them
parseInt(id) == IF id.lead = 0 THEN NaN ELSE id.lead
\* The unified id a decision's id stands for: "perRow" parses it, "inArray"
\* looks the string up in factById and memoryById.
Resolve(id) ==
  IF pipeline = "perRow" THEN parseInt(id)
  ELSE IF id.lead > 0 /\ id = String(id.lead) THEN id.lead
  ELSE NaN
Decision == [event : {"ADD", "UPDATE"}, id : IdStrings, text : Texts \cup {""}]
DecisionLists == SeqsUpTo(Decision, MaxDecisions)
\* The rows whoever owns them.
OwnedByAnyone(u) == 1..Len(memory)
\* eq(memory.userId, options.userId)
OwnedBy(u) == {i \in 1..Len(memory) : memory[i].userId = u}
\* What the similarity search can return: memories of the user, each once,
\* in any order.
SearchResults(n) ==
  {q \in SeqsUpTo(OwnedBy(1), SIMILAR_MEMORY_TOP_K) :
     Len(q) <= SIMILAR_MEMORY_TOP_K * n /\ \A i, j \in 1..Len(q) : i # j => q[i] # q[j]}

NoTarget == [originalId |-> 0, text |-> ""]
\* buildDecisionPlan, one decision: the prepared decision, or <<>> if dropped.
Prepare(d, facts, existing) ==
  IF d.event = "ADD"
  THEN LET factIndex == Resolve(d.id) - (Len(existing) + 1) IN
         IF factIndex < 0 \/ factIndex >= Len(facts) THEN <<>>
         ELSE <<[kind |-> "ADD",
                 text |-> IF d.text # "" THEN d.text ELSE facts[factIndex + 1],
                 memory |-> NoTarget]>>
  ELSE LET memoryIndex == Resolve(d.id) - 1 IN
         IF memoryIndex < 0 \/ memoryIndex >= Len(existing) THEN <<>>
         ELSE IF pipeline = "inArray" /\ d.text = "" THEN <<>>
         ELSE <<[kind |-> "UPDATE", text |-> d.text, memory |-> existing[memoryIndex + 1]]>>

\* unifiedExisting, unifiedNewFacts: a decision names a new fact (ADD) or a
\* retrieved memory and a text for it (UPDATE) by the id the prompt gave it.
Named(d, facts, existing) ==
  IF d.event = "ADD"
  THEN \E n \in 1..Len(facts) : d.id = String(Len(existing) + n)
  ELSE d.text # "" /\ \E n \in 1..Len(existing) : d.id = String(n)
\* The memory statement such a decision asks for.
Asked(d, facts, existing) ==
  IF d.event = "ADD"
  THEN [kind |-> "ADD", id |-> 0,
        content |-> IF d.text # "" THEN d.text ELSE facts[d.id.lead - Len(existing)]]
  ELSE [kind |-> "UPDATE", id |-> existing[d.id.lead].originalId, content |-> d.text]
RECURSIVE AskedAll(_, _, _)
AskedAll(ds, facts, existing) ==
  IF ds = <<>> THEN <<>>
  ELSE (IF Named(Head(ds), facts, existing)
        THEN <<Asked(Head(ds), facts, existing)>> ELSE <<>>)
       \o AskedAll(Tail(ds), facts, existing)

RECURSIVE PrepareAll(_, _, _)
PrepareAll(ds, facts, existing) ==
  IF ds = <<>> THEN <<>>
  ELSE Prepare(Head(ds), facts, existing) \o PrepareAll(Tail(ds), facts, existing)

\* plan.embeddingByText.get(decision.embeddingKey): the empty text is never
\* sent to Embed and no fact has it.
HasEmbedding(d) == d.text # ""

\* The rows after the staged statements of a transaction are applied.
RECURSIVE ApplyWrites(_, _)
ApplyWrites(mem, ws) ==
  IF ws = <<>> THEN mem
  ELSE LET w == Head(ws) IN
       ApplyWrites(
         IF w.kind = "ADD"
         THEN Append(mem, [id |-> Len(mem) + 1, userId |-> 1, createdAt |-> 0,
                           content |-> w.content, prevContent |-> "",
                           action |-> "ADD", embedding |-> w.embedding])
         ELSE [mem EXCEPT ![w.id] = [@ EXCEPT !.content = w.content,
                                              !.prevContent = w.prevContent,
                                              !.action = "UPDATE",
                                              !.embedding = w.embedding]],
         Tail(ws))

\* generate-story: db.insert(message).values([...]) of the turn's messages.
PersistMessages(s) ==
  /\ story[s].handler \in Registered
  /\ \E n \in 1..MaxTurnMsgs :
       /\ Len(message) + n <= MaxMsgs
       /\ message' = message \o
            [i \in 1..n |-> [story |-> s, extracted |-> FALSE, valid |-> TRUE]]
  /\ UNCHANGED <<schedVars, restVars, memory, run>>

\* The request goes on after a failed insert as after one that resolved.
AfterInsertAny(resolved) == "inserted"
\* try { await db.insert(message).values(...) } catch { return 500 }: the
\* request goes on to addExtractionJob only if the insert resolved.
AfterInsert(resolved) == IF resolved THEN "inserted" ELSE "idle"
\* POST /generate-story of user 1 up to the insert of messagesToInsert: the
\* story is the caller's and its handler is registered (404 and an exception
\* otherwise); with no message to insert the request answers 200 at once.
GenerateStory_insert(s) ==
  /\ turn.pc = "idle"
  /\ story[s].userId = 1
  /\ story[s].handler \in Registered
  /\ \E n \in 0..MaxTurnMsgs, resolved \in BOOLEAN :
       /\ Len(message) + n <= MaxMsgs
       /\ n = 0 => resolved
       /\ message' = IF n > 0 /\ resolved
                     THEN message \o [i \in 1..n |->
                            [story |-> s, extracted |-> FALSE, valid |-> TRUE]]
                     ELSE message
       /\ turn' = [pc |-> IF n = 0 THEN "idle" ELSE AfterInsert(resolved),
                   story |-> s,
                   inserted |-> IF resolved THEN n ELSE 0,
                   status |-> IF n = 0 THEN 200 ELSE IF resolved THEN 0 ELSE 500,
                   scheduled |-> FALSE,
                   upTo |-> turn.upTo]
  /\ UNCHANGED <<schedVars, pipeline, story, requests, lookup, answered, memory, run>>

\* extractMemory returns or throws: its locals are gone, what it did stays.
Ended(rec, pc) ==
  [rec EXCEPT !.pc = pc, !.facts = <<>>, !.existingMemories = <<>>,
              !.decisions = <<>>, !.k = 0, !.txWrites = <<>>, !.txMarked = {},
              !.asked = <<>>, !.accepted = <<>>]

\* The store as the run found it, noted for the runs made in a row.
Begun(rec) ==
  [rec EXCEPT !.before = IF Watching("twice")
                         THEN [message |-> message, memory |-> memory]
                         ELSE @]

\* Stage 1: the select of the pending messages, ordered by createdAt, and
\* what follows it up to the next await: the rendering of the conversation.
loadPendingMessages(r) ==
  /\ run[r].pc = "idle"
  /\ \/ \* the select rejects
        run' = [run EXCEPT ![r] = Begun([@ EXCEPT !.pc = "failed", !.failedAt = "load"])]
     \/ \E out \in Renderings(PendingIds) :
          run' = [run EXCEPT ![r] = Begun(
            IF PendingIds = {} THEN [@ EXCEPT !.pc = "returned"]
            ELSE IF out.throws
            THEN [@ EXCEPT !.pc = "failed", !.failedAt = "render",
                           !.messageIds = Ascending(PendingIds),
                           !.handlers = HandlersOf(PendingIds)]
            ELSE [@ EXCEPT !.pc = "facts", !.rendered = out.ids,
                           !.messageIds = Ascending(PendingIds),
                           !.handlers = HandlersOf(PendingIds)])]
  /\ UNCHANGED <<schedVars, restVars, message, memory>>

\* Stage 2 with the messages marked as soon as the facts are there.
extractFactsMarkingFirst(r) ==
  /\ run[r].pc = "facts"
  /\ \E facts \in FactLists \ {<<>>} :
       run' = [run EXCEPT ![r].pc = "embed", ![r].facts = facts]
  /\ message' = SetExtracted(Range(run[r].messageIds))
  /\ UNCHANGED <<schedVars, restVars, memory>>

\* Stage 2: Response(prompt, FactRetrievalSchema)
extractFactsFromMessages(r) ==
  /\ run[r].pc = "facts"
  /\ \E facts \in FactLists :
       run' = [run EXCEPT ![r] =
         IF facts = <<>> THEN [@ EXCEPT !.pc = "mark", !.k = 1]
         ELSE [@ EXCEPT !.pc = "embed", !.facts = facts]]
  /\ UNCHANGED <<schedVars, restVars, message, memory>>

\* Stage 3: Embed(factTexts)
Embed(r) ==
  /\ run[r].pc = "embed"
  /\ run' = [run EXCEPT ![r].pc = "search"]
  /\ UNCHANGED <<schedVars, restVars, message, memory>>

\* Stage 4: the unique memories found, with the content they have now.
buildExistingMemoryContext(r) ==
  /\ run[r].pc = "search"
  /\ \E q \in SearchResults(Len(run[r].facts)) :
       run' = [run EXCEPT ![r].pc = "decide",
                          ![r].existingMemories =
                             [i \in 1..Len(q) |->
                                [originalId |-> q[i], text |-> memory[q[i]].content]]]
  /\ UNCHANGED <<schedVars, restVars, message, memory>>

\* Stage 5: Response(memoryUpdatePrompt, MemoryUpdateSchema), buildDecisionPlan
buildDecisionPlan(r) ==
  /\ run[r].pc = "decide"
  /\ \E out \in DecisionLists :
       LET plan == PrepareAll(out, run[r].facts, run[r].existingMemories) IN
       run' = [run EXCEPT ![r].decisions = plan, ![r].k = 1,
                          ![r].asked =
                             IF Watching("twice")
                             THEN AskedAll(out, run[r].facts, run[r].existingMemories)
                             ELSE @,
                          ![r].applicable =
                             Cardinality({i \in 1..Len(plan) : HasEmbedding(plan[i])}),
                          ![r].decided = IF Watching("twice") THEN Len(out) ELSE @,
                          ![r].accepted =
                             IF Watching("twice")
                             THEN SelectSeq(out, LAMBDA d :
                                    Prepare(d, run[r].facts, run[r].existingMemories) # <<>>)
                             ELSE @,
                          ![r].pc = IF plan = <<>> THEN "txMark" ELSE "tx"]
  /\ UNCHANGED <<schedVars, restVars, message, memory>>

\* Stage 6, applyDecisionPlan: one turn of the loop over plan.decisions
TxDecision(r) ==
  /\ run[r].pc = "tx"
  /\ LET d == run[r].decisions[run[r].k]
         w == IF d.kind = "ADD"
              THEN [kind |-> "ADD", id |-> 0, content |-> d.text, prevContent |-> "",
                    embedding |-> EmbeddingOf(d.text)]
              ELSE [kind |-> "UPDATE", id |-> d.memory.originalId,
                    content |-> d.text, prevContent |-> d.memory.text,
                    embedding |-> EmbeddingOf(d.text)]
     IN run' = [run EXCEPT
          ![r].txWrites = IF HasEmbedding(d) THEN Append(@, w) ELSE @,
          ![r].k = IF run[r].k = Len(run[r].decisions) THEN 1 ELSE @ + 1,
          ![r].pc = IF run[r].k = Len(run[r].decisions) THEN "txMark" ELSE "tx"]
  /\ UNCHANGED <<schedVars, restVars, message, memory>>

\* markMessagesAsExtracted(messageIds, executor): one UPDATE statement, for
\* one id ("perRow") or for all of them ("inArray"); executor is tx when
\* called from applyDecisionPlan and db when no fact was found.
markMessagesAsExtracted(r) ==
  /\ run[r].pc \in {"mark", "txMark"}
  /\ LET ids == IF pipeline = "perRow" THEN {run[r].messageIds[run[r].k]}
                ELSE Range(run[r].messageIds)
         last == pipeline = "inArray" \/ run[r].k = Len(run[r].messageIds)
     IN IF run[r].pc = "mark"
        THEN /\ message' = SetExtracted(ids)
             /\ run' = [run EXCEPT ![r] =
                  IF last
                  THEN Ended([@ EXCEPT !.marked = @ \cup ids,
                                       !.stats = [EMPTY_STATS EXCEPT
                                                    !.messagesExtracted = Len(run[r].messageIds)]],
                             "returned")
                  ELSE [@ EXCEPT !.marked = @ \cup ids, !.k = @ + 1]]
        ELSE /\ message' = message
             /\ run' = [run EXCEPT ![r].txMarked = @ \cup ids,
                                   ![r].k = @ + 1,
                                   ![r].pc = IF last THEN "commit" ELSE "txMark"]
  /\ UNCHANGED <<schedVars, restVars, memory>>

\* db.transaction resolves: the staged statements take effect together.
TxCommit(r) ==
  /\ run[r].pc = "commit"
  /\ memory' = ApplyWrites(memory, run[r].txWrites)
  /\ message' = SetExtracted(run[r].txMarked)
  /\ run' = [run EXCEPT ![r] = Ended(
       [@ EXCEPT !.marked = run[r].txMarked,
                 !.landed = Len(run[r].txWrites),
                 !.stats = [factsExtracted |-> Len(run[r].facts),
                            memoriesAdded |-> CountKind(run[r].txWrites, "ADD"),
                            memoriesUpdated |-> CountKind(run[r].txWrites, "UPDATE"),
                            messagesExtracted |-> Len(run[r].messageIds)]],
       "returned")]
  /\ UNCHANGED <<schedVars, restVars>>

\* The awaited call rejects: extractMemory throws; an open transaction is
\* rolled back.
Throw(r) ==
  /\ run[r].pc \in {"facts", "embed", "search", "decide", "tx", "txMark", "commit", "mark"}
  /\ run' = [run EXCEPT ![r] = Ended([@ EXCEPT !.failedAt = run[r].pc], "failed")]
  /\ UNCHANGED <<schedVars, restVars, message, memory>>

\* ------------------------------------------------ the routes on the store
\* The body of an update request: the columns it names and their values.
\* A content is one the story's handler can parse, or any other JSON value.
MessageUpdate ==
  [fields : SUBSET {"content", "extracted"}, valid : BOOLEAN, extracted : BOOLEAN]
MemoryUpdate ==
  [fields : SUBSET {"content", "embedding"}, content : Texts,
   embedding : {EmbeddingOf(t) : t \in Texts}]
\* createUpdateSchema(memory): a payload may also name the columns id, userId
\* and createdAt.
MemoryUpdateOfAny ==
  [fields : SUBSET {"content", "id", "userId", "createdAt"}, content : {"b"},
   id : {MaxRows + 1}, userId : {2}, createdAt : {1}]
\* updateData with nothing deleted from it
Unstripped(data) == data
\* delete updateData.userId, updateData.id, updateData.createdAt
Stripped(data) == [data EXCEPT !.fields = @ \ {"userId", "id", "createdAt"}]

\* POST /update-message: update(message).set({ ...updateData, updatedAt })
\* The caller is user 1; a message of another user's story is not found.
updateMessage(i, data) ==
  /\ requests < MaxRequests
  /\ i \in 1..Len(message)
  /\ message' =
       IF story[message[i].story].userId = 1
       THEN [message EXCEPT ![i] =
              [story |-> @.story,
               extracted |-> IF "extracted" \in data.fields THEN data.extracted
                             ELSE @.extracted,
               valid |-> IF "content" \in data.fields THEN data.valid ELSE @.valid]]
       ELSE message
  /\ requests' = requests + 1
  /\ UNCHANGED <<schedVars, pipeline, turn, story, lookup, answered, memory, run>>

\* POST /update-story: update(story).set(updateData), any name up to 128
\* characters is accepted. The caller is user 1; a story of another user is
\* not found.
updateStory(s, h) ==
  /\ requests < MaxRequests
  /\ story' = IF story[s].userId = 1 THEN [story EXCEPT ![s].handler = h] ELSE story
  /\ requests' = requests + 1
  /\ UNCHANGED <<schedVars, pipeline, turn, lookup, answered, message, memory, run>>

\* POST /create-memory: embedding = await Embed(content), then the insert.
createMemory(content) ==
  /\ requests < MaxRequests
  /\ memory' = Append(memory, [id |-> Len(memory) + 1, userId |-> 1, createdAt |-> 0,
                               content |-> content, prevContent |-> "",
                               action |-> "", embedding |-> EmbeddingOf(content)])
  /\ requests' = requests + 1
  /\ UNCHANGED <<schedVars, pipeline, turn, story, lookup, answered, message, run>>

\* POST /update-memory: update(memory).set({ ...updateData, updatedAt })
\* The caller is user 1. The record is selected by id and user, 404 if there
\* is none; the update sets the fields that are left in updateData.
updateMemory(m, data) ==
  /\ requests < MaxRequests
  /\ LET updateData == Stripped(data)
         has(f) == f \in updateData.fields
         record == m \in 1..Len(memory) /\ memory[m].userId = 1
     IN /\ memory' =
             IF record
             THEN [memory EXCEPT ![m] =
                    [@ EXCEPT !.id = IF has("id") THEN data.id ELSE @,
                              !.userId = IF has("userId") THEN data.userId ELSE @,
                              !.createdAt = IF has("createdAt") THEN data.createdAt ELSE @,
                              !.content = IF has("content") THEN data.content ELSE @,
                              !.embedding = IF has("embedding") THEN data.embedding ELSE @]]
             ELSE memory
        /\ answered' = IF Watching("owner")
                       THEN [id |-> m, fields |-> data.fields,
                             status |-> IF record THEN 200 ELSE 404]
                       ELSE answered
  /\ requests' = requests + 1
  /\ UNCHANGED <<schedVars, pipeline, turn, story, lookup, message, run>>

\* =================================================== the similarity search
\* Embeddings here are unit vectors in a plane: the texts "p", "q", "r"
\* are embedded at 0, 60 and 120 degrees. Similarities are kept in tenths:
\* 10, 5, -5 for vectors 0, 60, 120 degrees apart.
Vectors == {EmbeddingOf(t) : t \in {"p", "q", "r"}}
NULL == [vectorOf |-> ""]
\* 1 - cosineDistance(memory.embedding, queryEmbedding), in tenths
Similarity(e, q) ==
  LET AngleOf == [p |-> 0, q |-> 1, r |-> 2]
      a == AngleOf[e.vectorOf]
      b == AngleOf[q.vectorOf]
      apart == IF a >= b THEN a - b ELSE b - a
  IN  IF apart = 0 THEN 10 ELSE IF apart = 1 THEN 5 ELSE -5
\* gt(similarity, minSimilarity); a NULL embedding has a NULL similarity,
\* and the comparison is then not true.
gt(e, q, minSimilarity) == e # NULL /\ Similarity(e, q) > minSimilarity
\* options?.topK ?? 5, options?.minSimilarity ?? 0
DefaultTopK == 5
DefaultMinSimilarity == 0
SearchOptions ==
  [has : SUBSET {"topK", "minSimilarity"}, topK : 0..MaxTopK,
   minSimilarity : {0, 5}, userId : Users]
TopKOf(options) == IF "topK" \in options.has THEN options.topK ELSE DefaultTopK
MinSimilarityOf(options) ==
  IF "minSimilarity" \in options.has THEN options.minSimilarity
  ELSE DefaultMinSimilarity
\* where(and(eq(memory.userId, userId), gt(similarity, minSimilarity)))
Matching(q, options) ==
  {i \in 1..Len(memory) :
     /\ memory[i].userId = options.userId
     /\ gt(memory[i].embedding, q, MinSimilarityOf(options))}
\* the rows in whatever order the table gives them
Unordered(S, q) ==
  {o \in [1..Cardinality(S) -> S] :
     \A i, j \in 1..Cardinality(S) : i # j => o[i] # o[j]}
\* orderBy(desc(similarity)): rows of equal similarity come in any order
OrderedDesc(S, q) ==
  {o \in [1..Cardinality(S) -> S] :
     /\ \A i, j \in 1..Cardinality(S) : i # j => o[i] # o[j]
     /\ \A i, j \in 1..Cardinality(S) :
          i < j => Similarity(memory[o[i]].embedding, q)
                     >= Similarity(memory[o[j]].embedding, q)}
\* What searchSimilarMemories can resolve to: lists of { memory, similarity },
\* the first topK rows of the ordered selection (limit(topK)).
searchSimilarMemories(q, options) ==
  {[k \in 1..(IF TopKOf(options) < Len(o) THEN TopKOf(options) ELSE Len(o)) |->
      [memory |-> o[k], similarity |-> Similarity(memory[o[k]].embedding, q)]] :
     o \in OrderedDesc(Matching(q, options), q)}

\* A call of searchSimilarMemories, from the call to the resolved promise.
Search(q, options) ==
  /\ lookup.pc = "idle"
  /\ \E out \in searchSimilarMemories(q, options) :
       lookup' = [pc |-> "searched", q |-> q, options |-> options, out |-> out]
  /\ UNCHANGED <<schedVars, pipeline, turn, story, requests, answered, message, memory, run>>

\* The results kept in the order in which the queries finish.
SettleInTurn(results, i, found) ==
  LET free == CHOOSE k \in 1..Len(results) :
                /\ ~results[k].settled
                /\ \A l \in 1..(k - 1) : results[l].settled
  IN  [results EXCEPT ![free] = [settled |-> TRUE, found |-> found]]
\* Promise.all keeps each result at the index of its promise.
Settle(results, i, found) ==
  [results EXCEPT ![i] = [settled |-> TRUE, found |-> found]]
\* bulkSearchSimilarMemories up to its await: [] for no query, otherwise one
\* searchSimilarMemories per query, all started.
bulkSearchSimilarMemories(queries, options) ==
  /\ lookup.pc = "idle"
  /\ lookup' =
       IF Len(queries) = 0
       THEN [pc |-> "bulked", queries |-> queries, given |-> options,
             out |-> <<>>]
       ELSE [pc |-> "bulk", queries |-> queries, given |-> options,
             options |-> [has |-> {"topK", "minSimilarity"},
                          topK |-> TopKOf(options),
                          minSimilarity |-> MinSimilarityOf(options),
                          userId |-> options.userId],
             pending |-> 1..Len(queries),
             results |-> [i \in 1..Len(queries) |->
                            [settled |-> FALSE, found |-> <<>>]]]
  /\ UNCHANGED <<schedVars, pipeline, turn, story, requests, answered, message, memory, run>>
\* One of the queries finishes; with the last one Promise.all resolves.
QueryFinishes(i) ==
  /\ lookup.pc = "bulk"
  /\ i \in lookup.pending
  /\ \E found \in searchSimilarMemories(lookup.queries[i], lookup.options) :
       LET results == Settle(lookup.results, i, found) IN
       lookup' =
         IF lookup.pending = {i}
         THEN [pc |-> "bulked", queries |-> lookup.queries,
               given |-> lookup.given,
               out |-> [k \in 1..Len(results) |-> results[k].found]]
         ELSE [lookup EXCEPT !.pending = @ \ {i}, !.results = results]
  /\ UNCHANGED <<schedVars, pipeline, turn, story, requests, answered, message, memory, run>>

\* simple.ts, buildRelevantMemoriesSection: Embed and the search either
\* resolve or reject; whatever is thrown is caught.
buildRelevantMemoriesSection(question) ==
  /\ lookup.pc = "idle"
  /\ \E embedded \in BOOLEAN, searched \in BOOLEAN :
     \E out \in searchSimilarMemories(EmbeddingOf(question),
                  [has |-> {"topK", "minSimilarity"}, topK |-> 5,
                   minSimilarity |-> 0, userId |-> 1]) :
       lookup' = [pc |-> "recalled", handler |-> "simple",
                  failed |-> ~(embedded /\ searched),
                  found |-> IF embedded /\ searched THEN Len(out) ELSE 0,
                  threw |-> FALSE,
                  returned |->
                    IF ~(embedded /\ searched) THEN "(Unable to load memories)"
                    ELSE IF Len(out) = 0 THEN "(No relevant memories found)"
                    ELSE "- memory.content ..."]
  /\ UNCHANGED <<schedVars, pipeline, turn, story, requests, answered, message, memory, run>>
\* live/index.ts, buildRelevantMemories for a search text that is not blank.
\* Its sentences are Chinese; they are written here in pinyin: "(wufa jiansuo
\* jiyi)" is "(cannot retrieve memories)", "(meiyou zhaodao xiangguan jiyi)"
\* is "(found no related memories)".
buildRelevantMemories(searchText) ==
  /\ lookup.pc = "idle"
  /\ \E embedded \in BOOLEAN, searched \in BOOLEAN :
     \E out \in searchSimilarMemories(EmbeddingOf(searchText),
                  [has |-> {"topK", "minSimilarity"}, topK |-> 5,
                   minSimilarity |-> 4, userId |-> 1]) :
       lookup' = [pc |-> "recalled", handler |-> "live",
                  failed |-> ~(embedded /\ searched),
                  found |-> IF embedded /\ searched THEN Len(out) ELSE 0,
                  threw |-> FALSE,
                  returned |->
                    IF ~(embedded /\ searched) THEN "(wufa jiansuo jiyi)"
                    ELSE IF Len(out) = 0 THEN "(meiyou zhaodao xiangguan jiyi)"
                    ELSE "yixia shi ... jiyi:\n- memory.content ..."]
  /\ UNCHANGED <<schedVars, pipeline, turn, story, requests, answered, message, memory, run>>

\* The memory table as the searches find it: rows of the user and of
\* somebody else, embedded or not.
InitSearch ==
  /\ impl = "manual"
  /\ now = 0
  /\ jobs = {}
  /\ dedup = [u \in Users |-> NoKey]
  /\ nextId = 1
  /\ calls = [c \in Callers |-> Idle]
  /\ httpRuns = [u \in Users |-> 0]
  /\ ret = NoRet
  /\ burst = [u \in Users |-> NoBurst]
  /\ late = FALSE
  /\ watch = "owner"
  /\ pipeline = "inArray"
  /\ OneStory
  /\ message = <<>>
  /\ memory \in {t \in SeqsUpTo([id : 1..MaxRows, userId : 1..(NumUsers + 1),
                                  createdAt : {0}, content : {"a"},
                                  prevContent : {""}, action : {""},
                                  embedding : Vectors \cup {NULL}], MaxRows) :
                    \A i \in 1..Len(t) : t[i].id = i}
  /\ run = [r \in Runs |-> IdleRun]
NextSearch ==
  \/ \E q \in Vectors, options \in SearchOptions : Search(q, options)
  \/ \E queries \in SeqsUpTo(Vectors, MaxQueries), options \in SearchOptions :
       bulkSearchSimilarMemories(queries, options)
  \/ \E i \in 1..MaxQueries : QueryFinishes(i)
  \/ \E question \in {"p", "q", "r"} : buildRelevantMemoriesSection(question)
  \/ \E searchText \in {"p", "q", "r"} : buildRelevantMemories(searchText)
SpecSearch == InitSearch /\ [][NextSearch]_vars

\* update-memory requests of user 1 on such a table, for ids that exist and
\* for one that does not.
NextOwner ==
  \E m \in 1..(MaxRows + 1), data \in MemoryUpdateOfAny : updateMemory(m, data)
SpecOwner == InitSearch /\ [][NextOwner]_vars

InitExtract ==
  /\ impl = "manual"
  /\ now = 0
  /\ jobs = {}
  /\ dedup = [u \in Users |-> NoKey]
  /\ nextId = 1
  /\ calls = [c \in Callers |-> Idle]
  /\ httpRuns = [u \in Users |-> 0]
  /\ ret = NoRet
  /\ burst = [u \in Users |-> NoBurst]
  /\ late = FALSE
  /\ watch = "queue"
  /\ pipeline \in Pipelines
  /\ OneStory
  /\ message = <<>>
  /\ memory = <<>>
  /\ run = [r \in Runs |-> IdleRun]

NextExtract ==
  \/ PersistMessages(1)
  \/ \E r \in Runs : loadPendingMessages(r)
  \/ \E r \in Runs : extractFactsFromMessages(r)
  \/ \E r \in Runs : Embed(r)
  \/ \E r \in Runs : buildExistingMemoryContext(r)
  \/ \E r \in Runs : buildDecisionPlan(r)
  \/ \E r \in Runs : TxDecision(r)
  \/ \E r \in Runs : markMessagesAsExtracted(r)
  \/ \E r \in Runs : TxCommit(r)
  \/ \E r \in Runs : Throw(r)

SpecExtract == InitExtract /\ [][NextExtract]_vars

\* One extraction run among the requests of the routes.
TheRun == 1
NextStore ==
  \/ PersistMessages(1)
  \/ \E i \in 1..MaxMsgs, data \in MessageUpdate : updateMessage(i, data)
  \/ \E h \in HandlerNames : updateStory(1, h)
  \/ \E t \in Texts : createMemory(t)
  \/ \E m \in 1..MaxRequests, data \in MemoryUpdate : updateMemory(m, data)
  \/ loadPendingMessages(TheRun)
  \/ extractFactsFromMessages(TheRun)
  \/ Embed(TheRun)
  \/ buildExistingMemoryContext(TheRun)
  \/ buildDecisionPlan(TheRun)
  \/ TxDecision(TheRun)
  \/ markMessagesAsExtracted(TheRun)
  \/ TxCommit(TheRun)
  \/ Throw(TheRun)

SpecStore == InitExtract /\ [][NextStore]_vars

\* One run of extractMemory(1) on a store that user 1 shares with user 2:
\* story 1 is user 1's and story 2 is user 2's, both hold pending messages,
\* and the memories are of either user.
InitShared ==
  /\ impl = "manual"
  /\ now = 0
  /\ jobs = {}
  /\ dedup = [u \in Users |-> NoKey]
  /\ nextId = 1
  /\ calls = [c \in Callers |-> Idle]
  /\ httpRuns = [u \in Users |-> 0]
  /\ ret = NoRet
  /\ burst = [u \in Users |-> NoBurst]
  /\ late = FALSE
  /\ watch = "queue"
  /\ pipeline \in Pipelines
  /\ story = [s \in Stories |-> [handler |-> "simple", userId |-> s]]
  /\ requests = 0
  /\ lookup = [pc |-> "idle"]
  /\ answered = [id |-> 0, fields |-> {}, status |-> 0]
  /\ turn = NoTurn
  /\ message \in SeqsUpTo([story : Stories, extracted : {FALSE}, valid : {TRUE}],
                          MaxMsgs)
  /\ memory \in {t \in SeqsUpTo([id : 1..MaxRows, userId : 1..(NumUsers + 1),
                                  createdAt : {0}, content : {"a"},
                                  prevContent : {""}, action : {""},
                                  embedding : {EmbeddingOf("a")}], MaxRows) :
                    \A i \in 1..Len(t) : t[i].id = i}
  /\ run = [r \in Runs |-> IdleRun]
NextShared ==
  \/ loadPendingMessages(TheRun)
  \/ extractFactsFromMessages(TheRun)
  \/ Embed(TheRun)
  \/ buildExistingMemoryContext(TheRun)
  \/ buildDecisionPlan(TheRun)
  \/ TxDecision(TheRun)
  \/ markMessagesAsExtracted(TheRun)
  \/ TxCommit(TheRun)
  \/ Throw(TheRun)
SpecShared == InitShared /\ [][NextShared]_vars

\* The worker of the queue runs extractMemory for the job it holds: the run
\* starts with the job, and the job ends as the run does. The handlers
\* persist messages and call debounceMemoryExtraction meanwhile.
InitActive ==
  /\ impl = "manual"
  /\ now = 0
  /\ jobs = {}
  /\ dedup = [u \in Users |-> NoKey]
  /\ nextId = 1
  /\ calls = [c \in Callers |-> Idle]
  /\ httpRuns = [u \in Users |-> 0]
  /\ ret = NoRet
  /\ burst = [u \in Users |-> NoBurst]
  /\ late = FALSE
  /\ watch = "active"
  /\ pipeline = "inArray"
  /\ OneStory
  /\ message = <<>>
  /\ memory = <<>>
  /\ run = [r \in Runs |-> IdleRun]
Held == \E j \in jobs : j.state = "active"
NextActive ==
  \/ Tick
  \/ PersistMessages(1)
  \/ \E c \in Callers, u \in Users : Manual_getJob(c, u)
  \/ \E c \in Callers : Manual_getState(c)
  \/ \E c \in Callers : Manual_remove(c)
  \/ \E c \in Callers : Manual_add(c)
  \/ \E j \in jobs : TimerFires(j)
  \/ \E j \in jobs : run[TheRun].pc = "idle" /\ WorkerStart(j)
  \/ Held /\ loadPendingMessages(TheRun)
  \/ Held /\ extractFactsFromMessages(TheRun)
  \/ Held /\ Embed(TheRun)
  \/ Held /\ buildExistingMemoryContext(TheRun)
  \/ Held /\ buildDecisionPlan(TheRun)
  \/ Held /\ TxDecision(TheRun)
  \/ Held /\ markMessagesAsExtracted(TheRun)
  \/ Held /\ TxCommit(TheRun)
  \/ Held /\ Throw(TheRun)
  \/ \E j \in jobs : run[TheRun].pc = "returned" /\ WorkerSucceed(j)
  \/ \E j \in jobs : run[TheRun].pc = "failed" /\ WorkerFail(j)
SpecActive == InitActive /\ [][NextActive]_vars

\* The server as story.ts links it: generate-story persists a turn and calls
\* addExtractionJob, update-story renames handlers, and the worker runs
\* extractMemory for the job it holds. The awaited calls of the run resolve;
\* what still throws is the code itself. A turn is made while the clock
\* leaves room for the delay of its job, and its addExtractionJob call
\* follows its insert before the clock ticks again.
InitLive ==
  /\ impl = "simple"
  /\ now = 0
  /\ jobs = {}
  /\ dedup = [u \in Users |-> NoKey]
  /\ nextId = 1
  /\ calls = [c \in Callers |-> Idle]
  /\ httpRuns = [u \in Users |-> 0]
  /\ ret = NoRet
  /\ burst = [u \in Users |-> NoBurst]
  /\ late = FALSE
  /\ watch = "queue"
  /\ pipeline = "inArray"
  /\ OneStory
  /\ message = <<>>
  /\ memory = <<>>
  /\ run = [r \in Runs |-> IdleRun]
\* The worker is free again: the locals of the processor that ended are gone.
WorkerFree ==
  /\ ~Held
  /\ run[TheRun].pc \in {"returned", "failed"}
  /\ run' = [run EXCEPT ![TheRun] = IdleRun]
  /\ UNCHANGED <<schedVars, restVars, message, memory>>
\* What the requests of the clients do ...
NextClient ==
  \/ \E s \in Stories : now + DebounceDelay <= MaxTime /\ GenerateStory_insert(s)
  \/ \E s \in Stories, h \in HandlerNames : updateStory(s, h)
\* ... and what the server does on its own.
NextServer ==
  \/ turn.pc = "idle" /\ Tick
  \/ turn.pc = "inserted" /\ addExtractionJob(1)
  \/ \E j \in jobs : TimerFires(j)
  \/ \E j \in jobs : run[TheRun].pc = "idle" /\ WorkerStart(j)
  \/ Held /\ loadPendingMessages(TheRun) /\ run'[TheRun].failedAt # "load"
  \/ Held /\ extractFactsFromMessages(TheRun)
  \/ Held /\ Embed(TheRun)
  \/ Held /\ buildExistingMemoryContext(TheRun)
  \/ Held /\ buildDecisionPlan(TheRun)
  \/ Held /\ TxDecision(TheRun)
  \/ Held /\ markMessagesAsExtracted(TheRun)
  \/ Held /\ TxCommit(TheRun)
  \/ \E j \in jobs : run[TheRun].pc = "returned" /\ WorkerSucceed(j)
  \/ \E j \in jobs : run[TheRun].pc = "failed" /\ WorkerFail(j)
  \/ WorkerFree
NextLive == NextClient \/ NextServer
SpecTurn == InitLive /\ [][NextLive]_vars
\* The clock, the timers, the workers and the awaited calls do not stop
\* while there is something for them to do.
SpecLive == SpecTurn /\ WF_vars(NextServer)

\* The same, with completions that may return a blank fact.
InitBlank ==
  /\ impl = "manual"
  /\ now = 0
  /\ jobs = {}
  /\ dedup = [u \in Users |-> NoKey]
  /\ nextId = 1
  /\ calls = [c \in Callers |-> Idle]
  /\ httpRuns = [u \in Users |-> 0]
  /\ ret = NoRet
  /\ burst = [u \in Users |-> NoBurst]
  /\ late = FALSE
  /\ watch = "blank"
  /\ pipeline \in Pipelines
  /\ OneStory
  /\ message = <<>>
  /\ memory = <<>>
  /\ run = [r \in Runs |-> IdleRun]
SpecBlank == InitBlank /\ [][NextStore]_vars

\* extractMemory called again and again, each call after the one before has
\* returned, on a store that nothing else writes once the first call is made.
NoRunYet == \A r \in Runs : run[r].pc = "idle"
InARow(r) == IF r = 1 THEN TRUE ELSE run[r - 1].pc = "returned"
InitTwice ==
  /\ impl = "manual"
  /\ now = 0
  /\ jobs = {}
  /\ dedup = [u \in Users |-> NoKey]
  /\ nextId = 1
  /\ calls = [c \in Callers |-> Idle]
  /\ httpRuns = [u \in Users |-> 0]
  /\ ret = NoRet
  /\ burst = [u \in Users |-> NoBurst]
  /\ late = FALSE
  /\ watch = "twice"
  /\ pipeline \in Pipelines
  /\ OneStory
  /\ message = <<>>
  /\ memory = <<>>
  /\ run = [r \in Runs |-> IdleRun]

NextTwice ==
  \/ NoRunYet /\ \E s \in Stories : PersistMessages(s)
  \/ NoRunYet /\ \E i \in 1..MaxMsgs, data \in MessageUpdate : updateMessage(i, data)
  \/ NoRunYet /\ \E s \in Stories, h \in HandlerNames : updateStory(s, h)
  \/ NoRunYet /\ \E t \in Texts : createMemory(t)
  \/ NoRunYet /\ \E m \in 1..MaxRequests, data \in MemoryUpdate : updateMemory(m, data)
  \/ \E r \in Runs : InARow(r) /\ loadPendingMessages(r)
  \/ \E r \in Runs : extractFactsFromMessages(r)
  \/ \E r \in Runs : Embed(r)
  \/ \E r \in Runs : buildExistingMemoryContext(r)
  \/ \E r \in Runs : buildDecisionPlan(r)
  \/ \E r \in Runs : TxDecision(r)
  \/ \E r \in Runs : markMessagesAsExtracted(r)
  \/ \E r \in Runs : TxCommit(r)
  \/ \E r \in Runs : Throw(r)

SpecTwice == InitTwice /\ [][NextTwice]_vars

\* ===================================================================
\* Claims about the scheduler
\* ===================================================================
ActiveOf(u) == {j \in JobsOf(u) : j.state = "active"}
DelayedOf(u) == {j \in JobsOf(u) : j.state = "delayed"}
NoCallInFlight(u) == \A c \in Callers : calls[c].pc = "idle" \/ calls[c].user # u

\* C1: every user has at most one extraction job that is delayed, waiting
\* or active, whatever the interleaving of schedule calls (the manual
\* trigger included), timers and workers.
ClaimC1_OneJobPerUser == \A u \in Users : Cardinality(PendingOf(u)) <= 1

\* C2: at most one run of extractMemory(u) is in progress at any time,
\* counting the runs of the workers and those of POST /memory-extraction.
ClaimC2_OneRunPerUser ==
  \A u \in Users : Cardinality(ActiveOf(u)) + httpRuns[u] <= 1

\* C4: while schedule(u) keeps being called with gaps below debounceDelay and
\* no timer, worker or caller is slow, an extraction for u has been started
\* once more than maxWait has passed since the first call of the sequence.
ClaimC4_MaxWaitFromFirstCall ==
  \A u \in Users :
    (burst[u].first >= 0 /\ ~late /\ now - burst[u].last < DebounceDelay
       /\ now - burst[u].first > MaxWait)
    => burst[u].started > 0

\* C5: a sequence of schedule(u) calls with gaps below debounceDelay that
\* starts with no job for u in flight starts exactly one extraction job: never
\* two, and one has been started by the time no call and no job of u is left.
ClaimC5_ExactlyOneRun ==
  \A u \in Users :
    (burst[u].first >= 0 /\ burst[u].clean) =>
      /\ burst[u].started <= 1
      /\ (burst[u].done /\ NoCallInFlight(u) /\ PendingOf(u) = {})
           => burst[u].started = 1

\* C7: during a sequence of schedule(u) calls with gaps below debounceDelay,
\* from the return of the first call until a timer fires, the queue holds
\* exactly one delayed job for u at every instant.
ClaimC7_ExactlyOneDelayed ==
  \A u \in Users :
    (burst[u].first >= 0 /\ burst[u].clean /\ burst[u].done /\ ~burst[u].fired
       /\ now - burst[u].last < DebounceDelay)
    => Cardinality(DelayedOf(u)) = 1

\* A step in which the schedule(u) call of caller c returns or throws ...
CallReturns(c, u) == calls[c].pc # "idle" /\ calls[c].user = u /\ calls'[c].pc = "idle"
\* ... and a step that is one whole addExtractionJob(u) call.
SimpleCall(u) == impl = "simple" /\ nextId' = nextId + 1 /\ ret'.user = u
\* After the step, u's job in flight is one delayed job due at t + debounceDelay.
Postponed(u, t) ==
  /\ PendingOf(u)' # {}
  /\ \A j \in PendingOf(u)' : j.state = "delayed" /\ j.fireAt = t + DebounceDelay

\* C6: a schedule(u) call made while u's one job is delayed or waiting and no
\* older than maxWait leaves that job delayed until the time of the call plus
\* debounceDelay.
StepC6_Postpones ==
  \A u \in Users :
    /\ (SimpleCall(u) /\ OnePending(u)) => Postponed(u, now)
    /\ \A c \in Callers :
         (CallReturns(c, u) /\ calls[c].pend /\ now = calls[c].t0)
           => Postponed(u, calls[c].t0)
ClaimC6_Postpones == [][StepC6_Postpones]_vars

\* C8: a schedule(u) call made while u's job is active changes neither the
\* jobs nor the deduplication keys at any of its steps, and it reports
\* "processing".
StepC8_ActiveUntouched ==
  \A u \in Users :
    /\ (SimpleCall(u) /\ AllActive(u)) => (jobs' = jobs /\ dedup' = dedup)
    /\ \A c \in Callers :
         (calls[c].pc # "idle" /\ calls[c].user = u /\ calls[c].act
            /\ AllActive(u) /\ calls'[c] # calls[c])
           => /\ jobs' = jobs /\ dedup' = dedup
              /\ CallReturns(c, u) => ret'.status = "processing"
ClaimC8_ActiveUntouched == [][StepC8_ActiveUntouched]_vars

\* C9: when a schedule(u) call finds u's job older than maxWait (it reports
\* "max_wait_reached"), that job is no longer delayed when the call returns,
\* no second job of u is in flight, and u's deduplication key is gone.
StepC9_Promotes ==
  \A u \in Users : \A c \in Callers :
    (CallReturns(c, u) /\ ret'.status = "max_wait_reached")
      => /\ \A j \in jobs' : j.id = calls[c].job => j.state # "delayed"
         /\ Cardinality(PendingOf(u)') <= 1
         /\ dedup'[u] = NoKey
ClaimC9_Promotes == [][StepC9_Promotes]_vars

\* C10: a schedule(u) call made while u has no delayed, waiting or active job
\* (none yet, or the previous one completed or failed) leaves a new job of u,
\* delayed by debounceDelay.
Fresh(u) ==
  \E j \in PendingOf(u)' :
    j.state = "delayed" /\ j.timestamp = now /\ j.fireAt = now + DebounceDelay
StepC10_CreatesDelayed ==
  \A u \in Users :
    /\ (SimpleCall(u) /\ PendingOf(u) = {}) => Fresh(u)
    /\ \A c \in Callers :
         (CallReturns(c, u) /\ calls[c].clean /\ PendingOf(u) = {}) => Fresh(u)
ClaimC10_CreatesDelayed == [][StepC10_CreatesDelayed]_vars

\* ===================================================================
\* Claims about the extraction pipeline
\* ===================================================================
\* The decisions of the plan that applyDecisionPlan does not skip.
Applicable(r) == run[r].applicable

\* C3: for every extraction run that has ended, either all inserts and
\* updates of its plan have taken effect and every message it loaded has been
\* marked by it, or none of them has taken effect and it has marked no message.
ClaimC3_AllOrNothing ==
  \A r \in Runs :
    run[r].pc \in {"returned", "failed"} =>
      \/ run[r].marked = Range(run[r].messageIds) /\ run[r].landed = Applicable(r)
      \/ run[r].marked = {} /\ run[r].landed = 0

\* C11: every message whose extracted flag is true has been marked by an
\* extraction run whose batch of loaded messages included it; nothing else
\* sets the flag.
ClaimC11_MarkedByExtraction ==
  \A i \in 1..Len(message) :
    message[i].extracted =>
      \E r \in Runs : i \in run[r].marked /\ i \in Range(run[r].messageIds)

\* C12: in the state in which a run returns successfully, every message it
\* loaded has extracted = true, whatever other requests were served meanwhile.
StepC12_AllMarkedAtReturn ==
  \A r \in Runs :
    (run[r].pc # "returned" /\ run'[r].pc = "returned")
      => \A i \in Range(run'[r].messageIds) : message'[i].extracted
ClaimC12_AllMarkedAtReturn == [][StepC12_AllMarkedAtReturn]_vars

\* C13: when the transaction of a run commits, every memory it updates gets
\* as prevContent the content the row had just before the commit, whatever
\* was written to the row between the run's search and its transaction.
StepC13_PrevIsLastContent ==
  \A r \in Runs :
    (run[r].pc = "commit" /\ run'[r].pc = "returned")
      => \A k \in 1..Len(run[r].txWrites) :
           run[r].txWrites[k].kind = "UPDATE"
             => memory'[run[r].txWrites[k].id].prevContent
                  = memory[run[r].txWrites[k].id].content
ClaimC13_PrevIsLastContent == [][StepC13_PrevIsLastContent]_vars

\* C19: the extracted flag of a message never goes from true to false: it
\* changes at most once, from false to true.
StepC19_FlagNeverReset ==
  \A i \in 1..Len(message) : message[i].extracted => message'[i].extracted
ClaimC19_FlagNeverReset == [][StepC19_FlagNeverReset]_vars

\* C20: the embedding of every memory is the embedding of the content the
\* memory has now.
ClaimC20_EmbeddingOfContent ==
  \A m \in 1..Len(memory) : memory[m].embedding = EmbeddingOf(memory[m].content)

\* C14: a run of extractMemory made right after one that returned, with
\* nothing persisted in between, leaves the messages and the memories as it
\* found them, and if it returns it returns EMPTY_STATS.
ClaimC14_SecondRunIsIdle ==
  \A r \in Runs \ {1} :
    (run[r - 1].pc = "returned" /\ run[r].pc # "idle") =>
      /\ run[r].pc \in {"returned", "failed"}
      /\ run[r].pc = "returned" => run[r].stats = EMPTY_STATS
      /\ message = run[r].before.message
      /\ memory = run[r].before.memory
\* Two runs in a row, the first of which added a memory.
WitnessC14_SecondRunIsIdle ==
  /\ run[1].pc = "returned" /\ run[1].stats.memoriesAdded > 0
  /\ run[1].stats.messagesExtracted > 0
  /\ run[2].pc = "returned"

\* The steps of a run that come before the Stage 6 transaction.
PreStage6 == {"load", "render", "facts", "embed", "search", "decide"}
\* C15: a run that failed at a step before the Stage 6 transaction has marked
\* no message and written no memory: messages and memories are as the run
\* found them.
ClaimC15_FailureBeforeTxIsClean ==
  \A r \in Runs :
    (run[r].pc = "failed" /\ run[r].failedAt \in PreStage6) =>
      /\ run[r].marked = {} /\ run[r].landed = 0
      /\ message = run[r].before.message
      /\ memory = run[r].before.memory
\* A run with loaded messages and memories in the store fails at the decision
\* completion.
WitnessC15_FailureBeforeTxIsClean ==
  \E r \in Runs :
    /\ run[r].pc = "failed" /\ run[r].failedAt = "decide"
    /\ run[r].messageIds # <<>> /\ memory # <<>>

\* C16: a run that loaded a message of a story whose handler is not
\* registered has failed, has marked no message and has written no memory.
ClaimC16_UnknownHandlerFails ==
  \A r \in Runs :
    (run[r].handlers \ Registered # {}) =>
      /\ run[r].pc = "failed"
      /\ run[r].marked = {} /\ run[r].landed = 0
      /\ message = run[r].before.message
      /\ memory = run[r].before.memory
\* A run loaded messages of two stories, one with a registered handler and
\* one without.
WitnessC16_UnknownHandlerFails ==
  \E r \in Runs :
    /\ run[r].handlers \ Registered # {} /\ run[r].handlers \cap Registered # {}
    /\ run[r].pc = "failed"

\* C17: of the messages a run loaded (all of registered handlers), exactly
\* those whose content passes the handler's schema are in the rendered
\* conversation; the run does not fail over the others, and when it returns
\* it has marked all it loaded.
ClaimC17_InvalidLeftOut ==
  \A r \in Runs :
    (run[r].messageIds # <<>> /\ run[r].handlers \subseteq Registered) =>
      /\ run[r].failedAt # "render"
      /\ run[r].failedAt # "load" =>
           run[r].rendered =
             {i \in Range(run[r].messageIds) : run[r].before.message[i].valid}
      /\ run[r].pc = "returned" => run[r].marked = Range(run[r].messageIds)

\* The statements of a transaction, without the columns C18 is not about.
Statements(ws) ==
  [k \in 1..Len(ws) |-> [kind |-> ws[k].kind, id |-> ws[k].id, content |-> ws[k].content]]
\* C18: the transaction of a run holds one insert or update for each decision
\* that names a new fact (ADD) or a retrieved memory and a text (UPDATE), in
\* their order, and none for any other decision.
ClaimC18_UnknownIdsSkipped ==
  \A r \in Runs :
    run[r].pc = "commit" => Statements(run[r].txWrites) = run[r].asked

\* C21: a job whose run fails is tried again until it has been attempted
\* Attempts times: no job is attempted more often, and a job is in state
\* failed only after its Attempts-th attempt.
ClaimC21_RetriedUpToAttempts ==
  \A j \in jobs :
    /\ j.attemptsMade <= Attempts
    /\ j.state = "failed" => j.attemptsMade = Attempts

\* C22: the stats a run returns count the messages it loaded, the facts the
\* model returned, the rows its transaction inserted and the UPDATE
\* statements its transaction made, however many decisions were dropped.
StepC22_StatsCountTheRun ==
  \A r \in Runs :
    (run[r].pc # "returned" /\ run'[r].pc = "returned")
      => LET ws == run[r].txWrites
             st == run'[r].stats
         IN /\ st.messagesExtracted = Len(run'[r].messageIds)
            /\ st.messagesExtracted
                 = Cardinality({i \in 1..Len(run'[r].before.message) :
                                  ~run'[r].before.message[i].extracted})
            /\ st.factsExtracted = Len(run[r].facts)
            /\ st.memoriesAdded = Len(memory') - Len(memory)
            /\ st.memoriesUpdated
                 = Cardinality({k \in 1..Len(ws) : ws[k].kind = "UPDATE"})
ClaimC22_StatsCountTheRun == [][StepC22_StatsCountTheRun]_vars
\* A run returned after two decisions came back for its one fact and both
\* were dropped.
WitnessC22_StatsCountTheRun ==
  \E r \in Runs :
    /\ run[r].pc = "returned"
    /\ run[r].decided = 2
    /\ run[r].stats = [factsExtracted |-> 1, memoriesAdded |-> 0,
                       memoriesUpdated |-> 0, messagesExtracted |-> 2]

\* C23: a search returns at most topK results, each a memory of the user
\* with a similarity strictly above minSimilarity, in descending similarity;
\* no memory of the user that was left out is more similar than one that was
\* returned; with topK = 0 nothing is returned.
ClaimC23_SearchIsTopK ==
  lookup.pc = "searched" =>
    LET out == lookup.out
        q == lookup.q
        topK == TopKOf(lookup.options)
        minSimilarity == MinSimilarityOf(lookup.options)
        returned == {out[k].memory : k \in 1..Len(out)}
    IN /\ Len(out) <= topK
       /\ Cardinality(returned) = Len(out)
       /\ \A k \in 1..Len(out) :
            /\ memory[out[k].memory].userId = lookup.options.userId
            /\ out[k].similarity = Similarity(memory[out[k].memory].embedding, q)
            /\ out[k].similarity > minSimilarity
       /\ \A i, j \in 1..Len(out) : i < j => out[i].similarity >= out[j].similarity
       /\ \A m \in 1..Len(memory) :
            (/\ m \notin returned
             /\ memory[m].userId = lookup.options.userId
             /\ memory[m].embedding # NULL)
              => \A k \in 1..Len(out) :
                   Similarity(memory[m].embedding, q) <= out[k].similarity
       /\ topK = 0 => out = <<>>
\* A search with topK = 1 that returned the more similar of two memories
\* of the user that both pass the threshold.
WitnessC23_SearchIsTopK ==
  /\ lookup.pc = "searched"
  /\ TopKOf(lookup.options) = 1
  /\ Len(lookup.out) = 1
  /\ \E m \in 1..Len(memory) :
       /\ m # lookup.out[1].memory
       /\ memory[m].userId = lookup.options.userId
       /\ gt(memory[m].embedding, lookup.q, MinSimilarityOf(lookup.options))
       /\ Similarity(memory[m].embedding, lookup.q) < lookup.out[1].similarity

\* C24: a bulk search over n queries resolves to n lists, the i-th being a
\* result of the search for the i-th query with the same options, in
\* whatever order the queries finish.
ClaimC24_BulkIsPerQuery ==
  lookup.pc = "bulked" =>
    /\ Len(lookup.out) = Len(lookup.queries)
    /\ \A i \in 1..Len(lookup.queries) :
         lookup.out[i] \in searchSimilarMemories(lookup.queries[i], lookup.given)
\* A bulk search of two different queries that resolved to two different
\* lists with a memory in common.
WitnessC24_BulkIsPerQuery ==
  /\ lookup.pc = "bulked"
  /\ Len(lookup.queries) = 2
  /\ lookup.queries[1] # lookup.queries[2]
  /\ lookup.out[1] # lookup.out[2]
  /\ \E k, l \in 1..MaxRows :
       /\ k <= Len(lookup.out[1]) /\ l <= Len(lookup.out[2])
       /\ lookup.out[1][k].memory = lookup.out[2][l].memory

\* C25: whichever handler recalls memories, the recall throws nothing; it
\* returns "(Unable to load memories)" when the embedding or the search
\* failed and "(No relevant memories found)" when the search found nothing.
ClaimC25_RecallSentinels ==
  lookup.pc = "recalled" =>
    /\ ~lookup.threw
    /\ lookup.failed => lookup.returned = "(Unable to load memories)"
    /\ (~lookup.failed /\ lookup.found = 0)
         => lookup.returned = "(No relevant memories found)"

\* C26: a fact whose text is empty after trimming produces no memory: no
\* run inserts a memory whose content is blank.
StepC26_BlankFactDropped ==
  \A r \in Runs :
    (run[r].pc = "commit" /\ run'[r].pc = "returned")
      => \A m \in (Len(memory) + 1)..Len(memory') : memory'[m].content # " "
ClaimC26_BlankFactDropped == [][StepC26_BlankFactDropped]_vars

\* C27: update-memory changes no memory but the one it names, and that one
\* only if the caller owns it; it changes neither its userId nor its id nor
\* its createdAt, whatever the payload names; for an id that does not exist
\* or that another user owns it answers 404 and changes nothing.
StepC27_OwnerOnly ==
  LET m == answered'.id
      owned == m \in 1..Len(memory) /\ memory[m].userId = 1
  IN /\ Len(memory') = Len(memory)
     /\ \A i \in 1..Len(memory) :
          /\ memory'[i] # memory[i] => (i = m /\ owned)
          /\ memory'[i].userId = memory[i].userId
          /\ memory'[i].id = memory[i].id
          /\ memory'[i].createdAt = memory[i].createdAt
     /\ owned => answered'.status = 200
     /\ ~owned => (answered'.status = 404 /\ memory' = memory)
ClaimC27_OwnerOnly == [][StepC27_OwnerOnly]_vars
\* A request that named userId, id, createdAt and content for a memory of
\* the caller was answered 200 and set the content.
WitnessC27_OwnerOnly ==
  /\ answered.status = 200
  /\ answered.fields = {"content", "id", "userId", "createdAt"}
  /\ memory[answered.id].content = "b"
  /\ \E i \in 1..Len(memory) : memory[i].userId = 2

\* C28: in a run with n retrieved memories and m facts the memories are
\* "1".."n" and the facts "n+1".."n+m", no id is both, and the plan takes
\* an ADD only for the id of a fact and an UPDATE only for the id of a
\* memory.
ClaimC28_OneNamespace ==
  \A r \in Runs :
    LET n == Len(run[r].existingMemories)
        memoryIds == {String(i) : i \in 1..n}
        factIds == {String(n + j) : j \in 1..Len(run[r].facts)}
    IN /\ memoryIds \cap factIds = {}
       /\ \A k \in 1..Len(run[r].accepted) :
            IF run[r].accepted[k].event = "ADD"
            THEN run[r].accepted[k].id \in factIds
            ELSE run[r].accepted[k].id \in memoryIds

\* C29: the UPDATE decisions of a plan are applied in order, each storing as
\* prevContent the content its target has at that moment: a memory that
\* the plan updates more than once is left with the text of the update
\* before the last as its prevContent.
StepC29_PrevIsPrecedingUpdate ==
  \A r \in Runs :
    (run[r].pc = "commit" /\ run'[r].pc = "returned")
      => LET ws == run[r].txWrites
             updates(m) == {k \in 1..Len(ws) : ws[k].kind = "UPDATE" /\ ws[k].id = m}
         IN \A m \in 1..Len(memory) :
              Cardinality(updates(m)) >= 2
                => LET last == CHOOSE k \in updates(m) : \A l \in updates(m) : l <= k
                       before == CHOOSE k \in updates(m) \ {last} :
                                   \A l \in updates(m) \ {last} : l <= k
                   IN memory'[m].prevContent = ws[before].content
ClaimC29_PrevIsPrecedingUpdate == [][StepC29_PrevIsPrecedingUpdate]_vars

\* C30: when debounceMemoryExtraction finds the user's job active and adds
\* no job, the messages persisted before the call are extracted by the
\* time the run of that job has returned.
ClaimC30_ActiveRunSeesFresh ==
  (ret.status = "processing" /\ run[TheRun].pc = "returned")
    => \A i \in 1..ret.msgs : message[i].extracted

\* C32: no message is consumed by two committed runs: two runs that both
\* returned after a transaction that wrote memories loaded no message in common.
ClaimC32_ConsumedOnce ==
  \A r1, r2 \in Runs :
    (/\ r1 # r2
     /\ run[r1].pc = "returned" /\ run[r1].landed > 0
     /\ run[r2].pc = "returned" /\ run[r2].landed > 0)
      => Range(run[r1].messageIds) \cap Range(run[r2].messageIds) = {}

\* C37: the plan takes no decision whose id is not exactly the label of a
\* retrieved memory ("1".."n") or of a fact ("n+1".."n+m") of this run.
ClaimC37_UnparsedIdDropped ==
  \A r \in Runs :
    LET labels == {String(i) : i \in 1..(Len(run[r].existingMemories) + Len(run[r].facts))}
    IN \A k \in 1..Len(run[r].accepted) : run[r].accepted[k].id \in labels

\* C34: a run whose fact retrieval returned no fact returns with every
\* message it loaded marked extracted, the memories as it found them, and the
\* stats {0, 0, 0, number of messages it loaded}.
StepC34_NoFactOnlyMarks ==
  \A r \in Runs :
    (run[r].pc = "mark" /\ run'[r].pc = "returned")
      => LET loaded == {i \in 1..Len(run[r].before.message) :
                          ~run[r].before.message[i].extracted}
         IN /\ \A i \in loaded : message'[i].extracted
            /\ memory' = run[r].before.memory
            /\ run'[r].landed = 0
            /\ run'[r].stats = [factsExtracted |-> 0, memoriesAdded |-> 0,
                                memoriesUpdated |-> 0,
                                messagesExtracted |-> Cardinality(loaded)]
ClaimC34_NoFactOnlyMarks == [][StepC34_NoFactOnlyMarks]_vars
\* A run that found two pending messages and a memory returned without a fact.
WitnessC34_NoFactOnlyMarks ==
  \E r \in Runs :
    /\ run[r].pc = "returned"
    /\ run[r].stats.factsExtracted = 0 /\ run[r].stats.messagesExtracted = 2
    /\ run[r].marked = {1, 2}
    /\ memory # <<>>

\* C35: a run sets the extracted flag of no message but those it loaded in
\* Stage 1: when it returns, a message persisted while it was in progress
\* has the flag it had.
StepC35_OnlyLoadedMarked ==
  /\ \A i \in 1..Len(message) :
       (~message[i].extracted /\ message'[i].extracted)
         => \E r \in Runs : run'[r] # run[r] /\ i \in Range(run[r].messageIds)
  /\ \A r \in Runs :
       (run[r].pc # "returned" /\ run'[r].pc = "returned")
         => \A i \in 1..Len(message) :
              i \notin Range(run[r].messageIds)
                => message'[i].extracted = message[i].extracted
ClaimC35_OnlyLoadedMarked == [][StepC35_OnlyLoadedMarked]_vars
\* A run has committed a memory and marked what it loaded; a message that
\* was persisted after its Stage 1 is still pending.
WitnessC35_OnlyLoadedMarked ==
  \E r \in Runs :
    /\ run[r].pc = "returned" /\ run[r].landed > 0
    /\ run[r].marked = Range(run[r].messageIds)
    /\ \E i \in 1..Len(message) :
         i \notin Range(run[r].messageIds) /\ ~message[i].extracted

\* C36: a run of extractMemory(1) changes no memory but those of user 1,
\* inserts memories of user 1 only and changes no message but those of the
\* stories of user 1.
StepC36_OwnDataOnly ==
  /\ \A m \in 1..Len(memory) :
       memory'[m] # memory[m] => (memory[m].userId = 1 /\ memory'[m].userId = 1)
  /\ \A m \in (Len(memory) + 1)..Len(memory') : memory'[m].userId = 1
  /\ \A i \in 1..Len(message) :
       message'[i] # message[i] => story[message[i].story].userId = 1
ClaimC36_OwnDataOnly == [][StepC36_OwnDataOnly]_vars
\* The run has inserted a memory, updated one and marked a message, in a
\* store that holds a memory and a pending message of user 2.
WitnessC36_OwnDataOnly ==
  /\ run[TheRun].pc = "returned"
  /\ run[TheRun].stats.memoriesAdded > 0 /\ run[TheRun].stats.memoriesUpdated > 0
  /\ run[TheRun].marked # {}
  /\ \E m \in 1..Len(memory) : memory[m].userId = 2
  /\ \E i \in 1..Len(message) :
       story[message[i].story].userId = 2 /\ ~message[i].extracted

\* C33: generate-story calls addExtractionJob only once the messages of the
\* turn are in the message table; a request that has inserted messages ends
\* only by way of that call; a request whose insert failed changes neither
\* the messages nor the queue.
StepC33_ScheduleAfterPersist ==
  /\ SimpleCall(1) =>
       /\ turn.pc = "inserted" /\ turn.inserted > 0
       /\ Len(message) >= turn.inserted
       /\ \A k \in (Len(message) - turn.inserted + 1)..Len(message) :
            message[k].story = turn.story
  /\ (turn.pc = "inserted" /\ turn'.pc = "idle") => SimpleCall(1)
  /\ (turn'.pc = "idle" /\ turn'.inserted > 0) => turn'.scheduled
  /\ (turn' # turn /\ turn'.status = 500) =>
       /\ message' = message /\ jobs' = jobs /\ dedup' = dedup /\ nextId' = nextId
       /\ turn'.pc = "idle" /\ ~turn'.scheduled
ClaimC33_ScheduleAfterPersist == [][StepC33_ScheduleAfterPersist]_vars
\* A request has persisted the two messages of its turn and called
\* addExtractionJob: the job is there, delayed.
WitnessC33_ScheduleAfterPersist ==
  /\ turn.pc = "idle" /\ turn.status = 200
  /\ turn.inserted = 2 /\ turn.scheduled
  /\ \E j \in jobs : j.state = "delayed"
  /\ Len(message) = 2

\* C31: with the clock, the timers, the workers and the awaited calls going
\* on, every message that an addExtractionJob call has followed is marked
\* extracted at some time, whatever the handlers of the user's stories are.
ClaimC31_NoStall ==
  \A i \in 1..MaxMsgs :
    (turn.upTo >= i) ~> (i <= Len(message) /\ message[i].extracted)

TypeOK == now \in 0..MaxTime
====
